---- MODULE Spec2Model ----
(***************************************************************************)
(* Model of src/pca_dashboard.py: a Streamlit dashboard that loads records *)
(* from MongoDB (memoised by st.cache_data), lets the user select a region *)
(* of a scatterplot and filters / searches the table.                      *)
(*                                                                         *)
(* One step of the model is one user interaction together with the script  *)
(* run(s) it triggers (a st.rerun() starts the next run inside the same    *)
(* step).  Coordinates are integers in units of 0.1, so the 0.1 buffer of  *)
(* the single point selection is 1.  Strings are sequences of characters.  *)
(* Widget values (the chart selection, the search box) come with every     *)
(* interaction; what a run started by st.rerun() sees of the widgets the   *)
(* interrupted run had not reached is Streamlit's business and is a fixed  *)
(* unknown of the model (rerun_keeps).                                     *)
(***************************************************************************)
EXTENDS Integers, Sequences, FiniteSets, TLC

\* Largest x coordinate a box / lasso vertex is drawn from (units of 0.1).
MaxCoord == 1

\* Python's None for x_range / y_range, and a falsy "nothing shown" value.
None == <<>>

Truthy(v) == v # <<>>

Range(s) == {s[i] : i \in DOMAIN s}

----------------------------------------------------------------------------
(* Cells of the DataFrame: a number, a string or a null.                   *)
N(n) == [kind |-> "num", v |-> n]
S(s) == [kind |-> "str", v |-> s]
NoneCell == [kind |-> "None", v |-> <<>>]

\* The collection's documents once converted (the ObjectId already a str).
Data ==
  << [_id |-> S(<<"1", "a">>), Xpca |-> N(0), Ypca |-> N(0), label |-> S(<<"A", "b">>)],
     [_id |-> S(<<"2", "b">>), Xpca |-> N(1), Ypca |-> N(1), label |-> NoneCell],
     [_id |-> S(<<"3", "e">>), Xpca |-> N(1), Ypca |-> N(0), label |-> S(<<"b", "a">>)] >>

\* Documents without the projection coordinates.
NoCoordData ==
  << [_id |-> S(<<"4", "a">>), label |-> S(<<"a">>)] >>

\* The external store: reachable or not, and what collection.find() yields.
Stores ==
  { [up |-> TRUE,  records |-> Data],
    [up |-> FALSE, records |-> Data],
    [up |-> TRUE,  records |-> <<>>],
    [up |-> TRUE,  records |-> NoCoordData] }

\* What the user can type in the search box: plain words, and words with
\* characters that mean something in a regular expression.
Terms ==
  { <<>>, <<"A", "B">>, <<"a">>, <<".">>, <<"n", "o", "n", "e">>, <<"(">> }

----------------------------------------------------------------------------
(* get_mongodb_data and the st.cache_data memo around it.                  *)

EmptyCache == [valid |-> FALSE, val |-> <<>>, failed |-> FALSE]

\* The function body: the except branch returns an empty frame, as does an
\* empty collection.  failed records which return produced the value.
Fetch(st) ==
  IF st.up THEN [df |-> st.records, failed |-> FALSE]
           ELSE [df |-> <<>>, failed |-> TRUE]

\* @st.cache_data: a stored return value is served without running the body;
\* otherwise the body runs and whatever it returns is stored.
get_mongodb_data(c, st) ==
  IF c.valid
    THEN [df |-> c.val, cache |-> c, queried |-> FALSE]
    ELSE LET r == Fetch(st)
         IN [df |-> r.df,
             cache |-> [valid |-> TRUE, val |-> r.df, failed |-> r.failed],
             queried |-> TRUE]

----------------------------------------------------------------------------
(* filter_data_by_range                                                    *)

\* The comparison with the upper bounds exclusive.
InRangeOpenTop(r, x_range, y_range) ==
  /\ r.Xpca.v >= x_range[1] /\ r.Xpca.v < x_range[2]
  /\ r.Ypca.v >= y_range[1] /\ r.Ypca.v < y_range[2]

InRange(r, x_range, y_range) ==
  /\ r.Xpca.v >= x_range[1] /\ r.Xpca.v <= x_range[2]
  /\ r.Ypca.v >= y_range[1] /\ r.Ypca.v <= y_range[2]

filter_data_by_range(df, x_range, y_range) ==
  IF x_range = None \/ y_range = None
    THEN df
    ELSE SelectSeq(df, LAMBDA r : InRange(r, x_range, y_range))

----------------------------------------------------------------------------
(* Selection handling of main()                                            *)

MinOf(s) == CHOOSE m \in Range(s) : \A e \in Range(s) : m <= e
MaxOf(s) == CHOOSE m \in Range(s) : \A e \in Range(s) : m >= e

\* The ends of the list as given, without min() / max().
BoundsAsGiven(coords) == <<coords[1], coords[Len(coords)]>>

\* [min(coords), max(coords)]
Bounds(coords) == <<MinOf(coords), MaxOf(coords)>>

x_buffer == 1
y_buffer == 1

Unchanged(xr, yr) == [x_range |-> xr, y_range |-> yr, raised |-> FALSE]
Raised(xr, yr) == [x_range |-> xr, y_range |-> yr, raised |-> TRUE]

\* The box branch and the lasso branch have the same body: min() / max() of
\* the payload's coordinate lists; min() of an empty list raises ValueError
\* before the session state is assigned.
NormalizePayload(p, xr, yr) ==
  IF "x" \in DOMAIN p /\ "y" \in DOMAIN p
    THEN IF p.x = <<>> \/ p.y = <<>>
           THEN Raised(xr, yr)
           ELSE [x_range |-> Bounds(p.x), y_range |-> Bounds(p.y), raised |-> FALSE]
    ELSE Unchanged(xr, yr)

\* The points branch without the single point buffer.
NormalizePointsNoBuffer(points) ==
  [x_range |-> Bounds([i \in DOMAIN points |-> points[i].x]),
   y_range |-> Bounds([i \in DOMAIN points |-> points[i].y]),
   raised |-> FALSE]

\* The points branch: bounding box of the points, widened for one point.
NormalizePoints(points) ==
  LET xs == [i \in DOMAIN points |-> points[i].x]
      ys == [i \in DOMAIN points |-> points[i].y]
      bx == Bounds(xs)
      by == Bounds(ys)
  IN IF Len(points) = 1
       THEN [x_range |-> <<bx[1] - x_buffer, bx[2] + x_buffer>>,
             y_range |-> <<by[1] - y_buffer, by[2] + y_buffer>>,
             raised |-> FALSE]
       ELSE [x_range |-> bx, y_range |-> by, raised |-> FALSE]

\* if box ... elif points ... elif lasso ...
HandleSelection(ev, xr, yr) ==
  IF ev.box # <<>> THEN NormalizePayload(ev.box[1], xr, yr)
  ELSE IF ev.points # <<>> THEN NormalizePoints(ev.points)
  ELSE IF ev.lasso # <<>> THEN NormalizePayload(ev.lasso[1], xr, yr)
  ELSE Unchanged(xr, yr)

----------------------------------------------------------------------------
(* Search filter of main()                                                 *)

Lower(c) ==
  CASE c = "A" -> "a"
    [] c = "B" -> "b"
    [] c = "N" -> "n"
    [] OTHER -> c

\* astype(str): a string is itself, a null becomes the text "None".
AsStr(cell) == IF cell.kind = "None" THEN <<"N", "o", "n", "e">> ELSE cell.v

\* select_dtypes(include=['object']): the columns holding strings.  The
\* dtypes of filtered_df are those of df, whatever rows the filter kept.
TextColumns(df) ==
  IF df = <<>> THEN {}
  ELSE {c \in DOMAIN df[1] : \E i \in DOMAIN df : df[i][c].kind = "str"}

\* The term is compiled as a regular expression (str.contains defaults to
\* regex=True): "." matches any character and an unclosed "(" is an error.
RegexValid(pat) == \A i \in DOMAIN pat : pat[i] # "("

RegexMatchAt(pat, s, k) ==
  \A i \in DOMAIN pat : pat[i] = "." \/ Lower(pat[i]) = Lower(s[k + i])

\* re.search(pat, s, re.IGNORECASE)
StrContains(pat, s) ==
  \E k \in 0..(Len(s) - Len(pat)) : RegexMatchAt(pat, s, k)

\* display_df, or the regex error raised inside str.contains.
ApplySearch(df_all, filtered, term) ==
  IF term = <<>> THEN [df |-> filtered, raised |-> FALSE]
  ELSE LET cols == TextColumns(df_all)
       IN IF cols = {} THEN [df |-> filtered, raised |-> FALSE]
          \* DataFrame.apply does not run the lambda on a frame without rows.
          ELSE IF filtered = <<>> THEN [df |-> <<>>, raised |-> FALSE]
          ELSE IF ~RegexValid(term) THEN [df |-> <<>>, raised |-> TRUE]
          ELSE [df |-> SelectSeq(filtered,
                         LAMBDA r : \E c \in cols : StrContains(term, AsStr(r[c]))),
                raised |-> FALSE]

----------------------------------------------------------------------------
(* One script run of main() with no button pressed.                        *)

HasCoords(df) == "Xpca" \in DOMAIN df[1] /\ "Ypca" \in DOMAIN df[1]

\* What a run leaves behind: the memo, the session state, how far the run
\* got (stage), the exception that ended it (err) and what it displayed.
Out(c, q, xr, yr, stg, e, side, act, fdf, ddf) ==
  [cache |-> c, queried |-> q, x_range |-> xr, y_range |-> yr, stage |-> stg,
   err |-> e, sidebar |-> side, active |-> act, filtered |-> fdf, display |-> ddf]

\* The zoom as a display shows it: the pair of ranges, or nothing.
ZoomShown(xr, yr) == IF Truthy(xr) /\ Truthy(yr) THEN <<xr, yr>> ELSE None

Pass(c, st, xr, yr, ev, term) ==
  LET got == get_mongodb_data(c, st)
      df == got.df
  IN IF df = <<>>
       THEN Out(got.cache, got.queried, xr, yr, "no_data", "none",
                None, None, <<>>, <<>>)
     ELSE IF ~HasCoords(df)
       THEN Out(got.cache, got.queried, xr, yr, "schema_error", "none",
                None, None, <<>>, <<>>)
     ELSE
       LET side == ZoomShown(xr, yr)
           sel == HandleSelection(ev, xr, yr)
       IN IF sel.raised
            THEN Out(got.cache, got.queried, xr, yr, "exception", "ValueError",
                     side, None, <<>>, <<>>)
          ELSE
            LET act == ZoomShown(sel.x_range, sel.y_range)
                fdf == IF Truthy(sel.x_range) /\ Truthy(sel.y_range)
                         THEN filter_data_by_range(df, sel.x_range, sel.y_range)
                         ELSE df
                srch == ApplySearch(df, fdf, term)
            IN IF srch.raised
                 THEN Out(got.cache, got.queried, sel.x_range, sel.y_range,
                          "exception", "re.error", side, act, fdf, <<>>)
                 ELSE Out(got.cache, got.queried, sel.x_range, sel.y_range,
                          "done", "none", side, act, fdf, srch.df)

----------------------------------------------------------------------------
(* Selection events the chart can report                                   *)

\* The vertices a box or lasso is drawn through.
Vertices == (0..MaxCoord) \X {0, 1}

\* Vertex lists of a box (two corners) or a lasso, down to the empty list.
VertexLists ==
  {<<>>} \cup {<<p>> : p \in Vertices} \cup {<<p, q>> : p \in Vertices, q \in Vertices}

\* The payload dict of a box or lasso, with the keys in ks present.
Payload(vs, ks) ==
  [k \in ks |-> IF k = "x" THEN [i \in DOMAIN vs |-> vs[i][1]]
                           ELSE [i \in DOMAIN vs |-> vs[i][2]]]

Payloads ==
  {Payload(vs, {"x", "y"}) : vs \in VertexLists}
    \cup {Payload(vs, {"x"}) : vs \in VertexLists}
    \cup {Payload(vs, {"y"}) : vs \in VertexLists}
    \cup {Payload(<<>>, {})}

RECURSIVE PointsOf(_, _, _)
\* The chart points of the rows in idx, in row order, as {'x':..,'y':..}.
PointsOf(df, idx, i) ==
  IF i > Len(df) THEN <<>>
  ELSE IF i \in idx
    THEN <<[x |-> df[i].Xpca.v, y |-> df[i].Ypca.v]>> \o PointsOf(df, idx, i + 1)
    ELSE PointsOf(df, idx, i + 1)

WellFormed(p) ==
  "x" \in DOMAIN p /\ "y" \in DOMAIN p /\ p.x # <<>> /\ p.y # <<>>

\* Rows whose point lies in the bounding rectangle of a payload.
RowsIn(df, p) ==
  IF WellFormed(p)
    THEN {i \in DOMAIN df : InRange(df[i], Bounds(p.x), Bounds(p.y))}
    ELSE {}

NoSelection == [box |-> <<>>, points |-> <<>>, lasso |-> <<>>]

\* Clicks report the clicked points only.
ClickEvents(df) ==
  {[box |-> <<>>, points |-> PointsOf(df, idx, 1), lasso |-> <<>>] :
     idx \in SUBSET DOMAIN df}

\* A box selection reports the box and the points in it.
BoxEvents(df) ==
  {[box |-> <<p>>, points |-> PointsOf(df, RowsIn(df, p), 1), lasso |-> <<>>] :
     p \in Payloads}

\* A lasso reports the polygon and the points inside it: here none of the
\* points of its bounding rectangle, or all of them.
LassoEvents(df) ==
  UNION {{[box |-> <<>>, points |-> PointsOf(df, idx, 1), lasso |-> <<p>>] :
            idx \in {{}, RowsIn(df, p)}} : p \in Payloads}

Events(df) == BoxEvents(df) \cup ClickEvents(df) \cup LassoEvents(df)

\* The events of a chart drawn from Data.
DataEvents == Events(Data)

----------------------------------------------------------------------------
VARIABLES
  store,         \* the MongoDB collection and whether it can be reached
  cache,         \* st.cache_data's memo of get_mongodb_data
  x_range,       \* st.session_state.x_range
  y_range,       \* st.session_state.y_range
  event,         \* the chart's selection as the next interaction reports it
  search_term,   \* the search box's text as the next interaction reports it
  rerun_keeps,   \* whether a run started by st.rerun() sees the values of
                 \* the widgets the interrupted run had not drawn yet
  last,          \* the interaction that caused the last script run
  stage,         \* how far the last script run got
  err,           \* the exception that ended it, or "none"
  queried,       \* whether the last step ran the body of get_mongodb_data
  sidebar_zoom,  \* the range shown under "Current Zoom" in the last run
  active_filter, \* the range the last run filtered the table by
  filtered_df,   \* filtered_df of the last run
  display_df     \* display_df of the last run

vars == <<store, cache, x_range, y_range, event, search_term, rerun_keeps, last,
          stage, err, queried, sidebar_zoom, active_filter, filtered_df,
          display_df>>

\* The script run's results become the next state.
Render(p) ==
  /\ cache' = p.cache
  /\ x_range' = p.x_range
  /\ y_range' = p.y_range
  /\ stage' = p.stage
  /\ err' = p.err
  /\ queried' = p.queried
  /\ sidebar_zoom' = p.sidebar
  /\ active_filter' = p.active
  /\ filtered_df' = p.filtered
  /\ display_df' = p.display

\* The chart's selection after run p, which saw the selection seen while the
\* browser held held.  A run that returns before the chart is drawn removes
\* the widget and its value; when the script saw less than the browser holds,
\* the source does not tell which of the two the next interaction reports.
ChartValueAfter(p, held, seen) ==
  IF p.stage \in {"no_data", "schema_error"} THEN {NoSelection} ELSE {held, seen}

\* The same for the search box, which is also not drawn by a run that ends
\* in the selection handling's exception.
SearchValueAfter(p, held, seen) ==
  IF p.stage \in {"no_data", "schema_error"} THEN {<<>>}
  ELSE IF p.err = "ValueError" THEN {held, <<>>}
  ELSE {held, seen}

\* What a run started by st.rerun() sees of a widget value: the interrupted
\* run stopped before the chart and the search box were drawn.
SeenByRerun(held, default) == IF rerun_keeps THEN held ELSE default

\* The first script run of the session: the session state is initialised to
\* None / None, nothing is selected and the search box is empty.
Init ==
  /\ store \in Stores
  /\ rerun_keeps \in BOOLEAN
  /\ event = NoSelection
  /\ search_term = <<>>
  /\ last = "Load"
  /\ LET p == Pass(EmptyCache, store, None, None, NoSelection, <<>>)
     IN /\ cache = p.cache
        /\ x_range = p.x_range
        /\ y_range = p.y_range
        /\ stage = p.stage
        /\ err = p.err
        /\ queried = p.queried
        /\ sidebar_zoom = p.sidebar
        /\ active_filter = p.active
        /\ filtered_df = p.filtered
        /\ display_df = p.display

\* The chart (and the Reset Zoom button above it) was drawn by the last run.
ChartShown == stage \in {"done", "exception"}

\* The search box was drawn by the last run.
SearchShown == stage = "done" \/ err = "re.error"

\* A script run caused by a change of the chart's selection to one of evs:
\* on_select="rerun".
SelectFrom(evs) ==
  /\ ChartShown
  /\ \E ev \in evs :
       LET p == Pass(cache, store, x_range, y_range, ev, search_term)
       IN /\ Render(p)
          /\ event' \in ChartValueAfter(p, ev, ev)
          /\ search_term' \in SearchValueAfter(p, search_term, search_term)
  /\ last' = "SelectRegion"
  /\ UNCHANGED <<store, rerun_keeps>>

\* The user selects (or deselects) on the chart drawn from the loaded data.
SelectRegion ==
  SelectFrom(IF cache.val = Data THEN DataEvents ELSE Events(cache.val))

\* The user clicks points of the chart (or clears the selection).
ClickPoints == SelectFrom(ClickEvents(cache.val))

\* The Reset Zoom button: the run that sees the click clears the session
\* state and calls st.rerun(); the rerun is a full script run.
ResetZoom ==
  /\ ChartShown
  /\ LET got == get_mongodb_data(cache, store)
         ev == SeenByRerun(event, NoSelection)
         term == SeenByRerun(search_term, <<>>)
         p == Pass(got.cache, store, None, None, ev, term)
     IN /\ Render([p EXCEPT !.queried = got.queried \/ p.queried])
        /\ event' \in ChartValueAfter(p, event, ev)
        /\ search_term' \in SearchValueAfter(p, search_term, term)
  /\ last' = "ResetZoom"
  /\ UNCHANGED <<store, rerun_keeps>>

\* A script run caused by an edit of the search box.
SetSearchTerm ==
  /\ SearchShown
  /\ \E t \in Terms \ {search_term} :
       LET p == Pass(cache, store, x_range, y_range, event, t)
       IN /\ Render(p)
          /\ event' \in ChartValueAfter(p, event, event)
          /\ search_term' \in SearchValueAfter(p, t, t)
  /\ last' = "SetSearchTerm"
  /\ UNCHANGED <<store, rerun_keeps>>

\* The Refresh Data button: st.cache_data.clear(), then st.rerun().
RefreshData ==
  /\ LET ev == SeenByRerun(event, NoSelection)
         term == SeenByRerun(search_term, <<>>)
         p == Pass(EmptyCache, store, x_range, y_range, ev, term)
     IN /\ Render(p)
        /\ event' \in ChartValueAfter(p, event, ev)
        /\ search_term' \in SearchValueAfter(p, search_term, term)
  /\ last' = "RefreshData"
  /\ UNCHANGED <<store, rerun_keeps>>

\* The database goes down, comes back, or its collection changes.
StoreChange ==
  /\ \E s \in Stores \ {store} : store' = s
  /\ last' = "StoreChange"
  /\ queried' = FALSE
  /\ UNCHANGED <<cache, x_range, y_range, event, search_term, rerun_keeps,
                 stage, err, sidebar_zoom, active_filter, filtered_df,
                 display_df>>

\* The dashboard over a store that stays as the session found it, with every
\* kind of selection and an empty search box.
Next ==
  \/ SelectRegion
  \/ ResetZoom
  \/ RefreshData

Spec == Init /\ [][Next]_vars

\* The dashboard over a store that fails, recovers and changes, with the
\* selections made by clicking points and every search term.
NextStore ==
  \/ ClickPoints
  \/ ResetZoom
  \/ SetSearchTerm
  \/ RefreshData
  \/ StoreChange

SpecStore == Init /\ [][NextStore]_vars

----------------------------------------------------------------------------
(* Properties                                                              *)

\* C1: after a ResetZoom the Range is unset (x_range and y_range both None)
\* and the script run that follows the reset shows the full Dataset, not a
\* range filtered subset.  The run that follows the reset handles whatever
\* selection the chart reports to it, so the outcome is that of rerun_keeps:
\* the property is stated for a rerun that sees no selection.
ResetZoomShowsAll ==
  (last = "ResetZoom" /\ ~rerun_keeps) =>
    /\ x_range = None
    /\ y_range = None
    /\ stage = "done" => filtered_df = cache.val

\* A box or lasso payload that misses a key or whose coordinate lists are
\* both empty.
EmptyPayload(p) ==
  \/ "x" \notin DOMAIN p
  \/ "y" \notin DOMAIN p
  \/ (p.x = <<>> /\ p.y = <<>>)

\* A selection event with no points whose box / lasso payload, if there is
\* one, is empty or misses a key.
EmptyEvent(e) ==
  /\ e.points = <<>>
  /\ e.box # <<>> => EmptyPayload(e.box[1])
  /\ e.lasso # <<>> => EmptyPayload(e.lasso[1])

\* C2: a selection event with an empty point sequence, or with a box / lasso
\* payload missing 'x' or 'y', is a no-op: the Range is what it was and the
\* script run raises no error.
EmptySelectionIsNoOp ==
  [][(last' = "SelectRegion" /\ EmptyEvent(event'))
       => (x_range' = x_range /\ y_range' = y_range /\ err' = "none")]_vars

\* The payload of a box event, or of a lasso event (no box).
Geometry(e) == IF e.box # <<>> THEN e.box[1] ELSE e.lasso[1]

\* lo is the least and hi the greatest element of the list.
IsMinMax(coords, lo, hi) ==
  /\ lo \in Range(coords) /\ \A c \in Range(coords) : lo <= c
  /\ hi \in Range(coords) /\ \A c \in Range(coords) : c <= hi

\* C3: after a Box or Lasso selection event with a non-empty vertex
\* sequence the Range is the bounding box of the event's box / lasso
\* vertices: xMin = min(xs), xMax = max(xs), yMin = min(ys), yMax = max(ys).
BoxLassoRangeIsVertexBounds ==
  (/\ last = "SelectRegion"
   /\ (event.box # <<>> \/ event.lasso # <<>>)
   /\ WellFormed(Geometry(event)))
    => /\ x_range # None /\ y_range # None
       /\ IsMinMax(Geometry(event).x, x_range[1], x_range[2])
       /\ IsMinMax(Geometry(event).y, y_range[1], y_range[2])

\* The rows of df inside the closed rectangle xr by yr.
RowsInside(df, xr, yr) ==
  {i \in DOMAIN df : /\ xr[1] <= df[i].Xpca.v /\ df[i].Xpca.v <= xr[2]
                     /\ yr[1] <= df[i].Ypca.v /\ df[i].Ypca.v <= yr[2]}

\* C4: with a range set, the range filter returns exactly the records with
\* x_range[0] <= Xpca <= x_range[1] and y_range[0] <= Ypca <= y_range[1],
\* both bounds inclusive, in their original relative order; with the range
\* unset it returns the dataset unchanged.
RangeFilterExact ==
  stage = "done" =>
    IF x_range = None \/ y_range = None
      THEN filtered_df = cache.val
      ELSE LET df == cache.val
               rows == RowsInside(df, x_range, y_range)
           IN /\ Len(filtered_df) = Cardinality(rows)
              /\ \A i \in rows : \E j \in DOMAIN filtered_df : filtered_df[j] = df[i]
              /\ \A j \in DOMAIN filtered_df : \A k \in DOMAIN filtered_df :
                   j < k => \E a \in rows : \E b \in rows :
                              a < b /\ df[a] = filtered_df[j] /\ df[b] = filtered_df[k]

\* A degenerate x range (min = max) that keeps the two records on it and
\* drops the third.
RangeFilterExactWitness ==
  /\ stage = "done"
  /\ x_range = <<1, 1>>
  /\ y_range = <<0, 1>>
  /\ Len(filtered_df) = 2
  /\ Len(cache.val) = 3

\* s contains t as a substring, letter case ignored.
HasSubstring(s, t) ==
  \E k \in 0..(Len(s) - Len(t)) :
    \A i \in DOMAIN t : Lower(s[k + i]) = Lower(t[i])

\* C5: for a non-empty term the search filter returns exactly the records
\* of the range filtered set with at least one string typed field that
\* contains the term as a case-insensitive substring; for an empty term it
\* returns the set unchanged.
SearchIsSubstringMatch ==
  (stage = "done" /\ last \in {"SetSearchTerm", "SelectRegion"}) =>
    display_df =
      IF search_term = <<>>
        THEN filtered_df
        ELSE SelectSeq(filtered_df,
               LAMBDA r : \E c \in DOMAIN r :
                            r[c].kind = "str" /\ HasSubstring(r[c].v, search_term))

\* C6: after a Points selection of exactly one point (x, y) the Range is
\* [x-0.1, x+0.1] by [y-0.1, y+0.1]; after one of two or more points it is
\* the unpadded bounding box of their coordinates.
PointsSelectionRange ==
  (last = "SelectRegion" /\ event.box = <<>> /\ event.points # <<>>) =>
    LET pts == event.points
        xs == [i \in DOMAIN pts |-> pts[i].x]
        ys == [i \in DOMAIN pts |-> pts[i].y]
    IN /\ x_range # None /\ y_range # None
       /\ IF Len(pts) = 1
            THEN /\ x_range = <<pts[1].x - 1, pts[1].x + 1>>
                 /\ y_range = <<pts[1].y - 1, pts[1].y + 1>>
            ELSE /\ IsMinMax(xs, x_range[1], x_range[2])
                 /\ IsMinMax(ys, y_range[1], y_range[2])

\* The single point (0.1, 0.1) was clicked and the Range is 0.0 .. 0.2 on
\* both axes.
PointsSelectionRangeWitness ==
  /\ last = "SelectRegion"
  /\ event.box = <<>>
  /\ event.points = <<[x |-> 1, y |-> 1]>>
  /\ x_range = <<0, 2>>
  /\ y_range = <<0, 2>>

\* C7: a failed fetch yields an empty Dataset without an exception, and the
\* process-wide cache is populated only by a successful fetch: the empty
\* result of a failed fetch is not what the cache holds for later runs.
FailedFetchNotCached ==
  /\ cache.failed => (cache.val = <<>> /\ err = "none")
  /\ ~(cache.valid /\ cache.failed)

\* C8: RefreshData discards the cached Dataset, so that the script run it
\* starts fetches from the store again, and leaves the Range and the search
\* term as they were; the other interactions are served from the cache and
\* do not query the store.  Stated for a rerun that sees the widget values
\* the interrupted run had not reached, the case in which st.rerun() itself
\* loses nothing.
RefreshRefetchesOnly ==
  [][/\ (rerun_keeps /\ last' = "RefreshData") =>
          /\ queried'
          /\ cache'.val = Fetch(store).df
          /\ x_range' = x_range
          /\ y_range' = y_range
          /\ search_term' = search_term
     /\ last' \in {"SelectRegion", "ResetZoom", "SetSearchTerm"} =>
          /\ ~queried'
          /\ cache' = cache]_vars

\* C9: x_range and y_range are both unset or both set, and when set each
\* satisfies min <= max.
RangeWellFormed ==
  \/ x_range = None /\ y_range = None
  \/ /\ x_range # None /\ y_range # None
     /\ x_range[1] <= x_range[2]
     /\ y_range[1] <= y_range[2]

\* A box whose corners came in descending order on both axes.
RangeWellFormedWitness ==
  /\ last = "SelectRegion"
  /\ event.box # <<>>
  /\ WellFormed(event.box[1])
  /\ event.box[1].x = <<1, 0>>
  /\ event.box[1].y = <<1, 0>>
  /\ x_range = <<0, 1>>
  /\ y_range = <<0, 1>>

\* C10: within a script run the Range shown under "Current Zoom" in the
\* sidebar is the Range the table is filtered by in that run.
SidebarShowsActiveRange ==
  stage = "done" => sidebar_zoom = active_filter
====
